---- MODULE Spec2Model ----
(***************************************************************************)
(* A state-machine model of the Mego engine (src/mego.go): the session     *)
(* registry, the method registry and the dispatch of inbound frames, and   *)
(* the event/channel fan-out.                                              *)
(*                                                                         *)
(* One connection is served by one goroutine of the transport; frames of   *)
(* different connections are handled concurrently, so the dispatch of one  *)
(* frame is split at the points where it reads or writes memory that       *)
(* another connection's dispatch can reach (the backing array of the       *)
(* global middleware slice).                                               *)
(***************************************************************************)
EXTENDS Integers, Sequences, FiniteSets, TLC

(* ------------------------------ bounds --------------------------------- *)

\* Connections the transport ever opens.
MaxConns == 3
\* Global middleware handlers registered with Use before Run.
MaxGlobal == 3
\* Responses one request's handlers write (Respond may be called repeatedly).
MaxWrites == 1

\* Frames the transport delivers, over all connections.
MaxFrames == 2
\* Chunks the clients send, over all uploads.
MaxChunks == 3

\* Connections are numbered in their order of arrival.
Conns == 1..MaxConns
\* The connections that send frames concurrently in the dispatch specification.
Dispatchers == {1, 2}

(* ------------------------- program constants --------------------------- *)

StatusOK == 0
StatusFileNext == 10
StatusFileAbort == 11
StatusInvalid == 54
StatusNotFound == 55
StatusFileRetry == 70
StatusFileEmpty == 71
StatusFileTooLarge == 72

ErrNone == "nil"
ErrEventNotFound == "the event doesn't exist"
ErrChannelNotFound == "the channel doesn't exist"

\* err.Error() of the codec for a frame it cannot decode.
ErrDecode == "msgpack: invalid code"

MegoInitialize == "MegoInitialize"

\* EngineOption.MaxChunkSize and EngineOption.MaxFileSize as the host
\* configures them: the engine's defaults for every upload method.
EngineMaxChunkSize == 2
EngineMaxFileSize == 4

\* The MethodOption values a host gives the upload method; a field left at
\* 0 is not set. One chunk limit is below the engine's and one above it.
NoOption == [MaxChunkSize |-> 0, MaxFileSize |-> 0]
MethodOptions ==
    {NoOption,
     [MaxChunkSize |-> 1, MaxFileSize |-> 0],
     [MaxChunkSize |-> 3, MaxFileSize |-> 0],
     [MaxChunkSize |-> 0, MaxFileSize |-> 3],
     [MaxChunkSize |-> 3, MaxFileSize |-> 5]}

\* Sizes of the chunks clients send; the name of the upload method.
ChunkSizes == 0..3
UploadMethod == "Upload"

\* EngineOption.MaxSessions as the host configures it: the ceiling on
\* concurrently registered sessions.
MaxSessions == 2

(* ----------------------------- input sets ------------------------------ *)

\* The k-th middleware handed to Use is named by the k-th letter: handlers
\* are opaque function values, so only their order of registration matters.
MiddlewareOrder == <<"A", "B", "G", "H", "J">>

\* Use is variadic: one call registers one or two handlers here.
UseSizes == {1, 2}

\* Names a client may put in a request; "Ghost" is never registered.
MethodNames == {"Sum", "Echo", MegoInitialize}
RequestNames == MethodNames \cup {"Ghost"}

\* The handler chains a setup may register under each method name.
ChainsOf(name) ==
    CASE name = "Sum" -> {<<"C">>, <<"C", "D">>}
      [] name = "Echo" -> {<<"E">>}
      [] OTHER -> {<<"I">>}

\* The chains a setup may hand to NoMethod.
NoMethodChains == {<<"N">>}

ReqIDs == {7}

\* Event names the host declares, and those it emits on ("news" is never
\* declared); channel names clients subscribe to, and those Emit is given.
EventNames == {"chat"}
EmitEvents == EventNames \cup {"news"}
ChannelNames == {"room1", "room2"}
EmitChannels == ChannelNames \cup {""}

EmptyMap == [k \in {} |-> 0]

\* new laid over old: every key of either, new's value where both have one.
Merge(old, new) ==
    [k \in DOMAIN old \cup DOMAIN new |-> IF k \in DOMAIN new THEN new[k] ELSE old[k]]

\* A parameter payload: ok says whether it decodes as a key/value mapping.
BadParams == [ok |-> FALSE, keys |-> EmptyMap]
GoodParams(m) == [ok |-> TRUE, keys |-> m]

\* A frame the codec cannot decode into a request envelope.
BadFrame == [ok |-> FALSE, Method |-> "", ID |-> 0, Params |-> BadParams]
Request(m, id, p) == [ok |-> TRUE, Method |-> m, ID |-> id, Params |-> p]
NoFrame == [ok |-> FALSE, Method |-> "-", ID |-> 0, Params |-> BadParams]

(* ------------------------------- state --------------------------------- *)

VARIABLES
    phase,      \* "setup" until Run, then "serving"
    handlers,   \* Engine.handlers: [arr: backing array, len]; Len(arr) is cap
    Methods,    \* Engine.Methods: method name -> handler chain
    noMethod,   \* Engine.noMethod
    Sessions,   \* Engine.Sessions: session ID -> [Keys]
    nextID,     \* the next fresh session ID (uuid.NewV4 never repeats)
    conn,       \* per connection: "new", "open", "closed", "panic"
    connID,     \* per connection: the "ID" stored by s.Set, 0 if none
    ctx,        \* per connection: the dispatch context of the frame in hand
    req,        \* per connection: the last frame handed to messageHandler
    log,        \* per connection: handlers run for that frame, in order
    written,    \* per connection: responses written while handling it
    Events,     \* Engine.Events: event name -> (channel name -> subscribers)
    declared,   \* event names ever passed to Event
    subscribed, \* <<event, channel>> pairs ever subscribed to
    lastEmit,   \* the last Emit call: its arguments, result and deliveries
    sentKeys,   \* per connection: every key sent in a decodable
                \* initialization call, with the value sent last for it
    lastKeys,   \* per connection: the mapping of the last such call
    frames,     \* frames delivered so far
    access,     \* per connection: its access to Engine.Sessions in progress
    uploads,    \* per connection: the in-flight upload of its session
    methodOption \* Method.Option of the upload method

vars == <<phase, handlers, Methods, noMethod, Sessions, nextID, conn, connID,
          ctx, req, log, written, Events, declared, subscribed, lastEmit,
          sentKeys, lastKeys, frames, access, uploads, methodOption>>

engineVars == <<phase, handlers, Methods, noMethod>>
sessionVars == <<Sessions, nextID, conn, connID>>
dispatchVars == <<ctx, req, log, written>>
eventVars == <<Events, declared, subscribed, lastEmit>>
keyVars == <<sentKeys, lastKeys>>
uploadVars == <<uploads, methodOption>>

(* ------------------------------ Go slices ------------------------------ *)

\* A slice is a window of length len on a backing array arr; cap is Len(arr).
NilSlice == [arr |-> << >>, len |-> 0]
Cap(s) == Len(s.arr)
Elems(s) == SubSeq(s.arr, 1, s.len)

\* Element counts of the allocator's size classes for 8-byte function values.
SizeClassCaps == {1, 2, 3, 4, 6, 8, 10, 12, 14, 16}
RoundUpCap(n) == CHOOSE c \in SizeClassCaps :
                    c >= n /\ \A d \in SizeClassCaps : d >= n => c <= d

\* The capacities a growing append may allocate: double while that is enough,
\* else what is needed, rounded up to a size class. Runtimes without the
\* 24-byte class give 4 where newer ones give 3.
GrowCaps(old, need) ==
    LET want == IF need > 2 * old THEN need ELSE 2 * old
    IN  {RoundUpCap(want)} \cup (IF want = 3 THEN {4} ELSE {})

Fits(s, xs) == s.len + Len(xs) <= Cap(s)
AppendCaps(s, xs) == IF Fits(s, xs) THEN {Cap(s)} ELSE GrowCaps(Cap(s), s.len + Len(xs))

\* append(s, xs...) when the runtime picks capacity c: in place when xs fits
\* in the spare capacity, else into a fresh array holding a copy.
append(s, xs, c) ==
    [arr |-> [i \in 1..c |->
                 IF i <= s.len THEN s.arr[i]
                 ELSE IF i <= s.len + Len(xs) THEN xs[i - s.len]
                 ELSE IF Fits(s, xs) THEN s.arr[i] ELSE "nil"],
     len |-> s.len + Len(xs)]

(* --------------------------- engine set-up ----------------------------- *)

IdleCtx == [pc |-> "idle", Method |-> "", ID |-> 0, shared |-> FALSE,
            own |-> << >>, len |-> 0, index |-> 0, k |-> 0]

\* Response{Event: event, Result: result}: what Emit writes to a subscriber;
\* it names the event and carries no correlation ID.
EventResponse(ev) == [ID |-> 0, Code |-> StatusOK, Event |-> ev, Message |-> ""]

\* No Emit call observed. An observed call is forgotten as soon as a
\* registry or a connection changes, so that what lastEmit records can be
\* compared with the registries as they were at the call.
NoEmit == [called |-> FALSE, event |-> "", channel |-> "", err |-> ErrNone,
           to |-> EmptyMap, resp |-> EventResponse("")]

\* No chunk seen yet, and no upload in flight.
NoChunk == [size |-> 0, code |-> StatusOK, before |-> 0, seen |-> FALSE]
NoUpload == [state |-> "Idle", total |-> 0, accepted |-> << >>, last |-> NoChunk]

\* New(): empty registries, no middleware, no connection yet.
Init ==
    /\ phase = "setup"
    /\ handlers = NilSlice
    /\ Methods = EmptyMap
    /\ noMethod = << >>
    /\ Sessions = EmptyMap
    /\ nextID = 1
    /\ conn = [c \in Conns |-> "new"]
    /\ connID = [c \in Conns |-> 0]
    /\ ctx = [c \in Conns |-> IdleCtx]
    /\ req = [c \in Conns |-> NoFrame]
    /\ log = [c \in Conns |-> << >>]
    /\ written = [c \in Conns |-> << >>]
    /\ Events = EmptyMap
    /\ declared = {}
    /\ subscribed = {}
    /\ lastEmit = NoEmit
    /\ sentKeys = [c \in Conns |-> EmptyMap]
    /\ lastKeys = [c \in Conns |-> EmptyMap]
    /\ frames = 0
    /\ access = [c \in Conns |-> "none"]
    /\ uploads = [c \in Conns |-> NoUpload]
    /\ methodOption = NoOption

\* Use(handlers...): e.handlers = append(e.handlers, handlers...).
Use(n) ==
    /\ phase = "setup"
    /\ handlers.len + n <= MaxGlobal
    /\ LET hs == SubSeq(MiddlewareOrder, handlers.len + 1, handlers.len + n)
       IN  \E c \in AppendCaps(handlers, hs) : handlers' = append(handlers, hs, c)
    /\ UNCHANGED <<phase, Methods, noMethod, sessionVars, dispatchVars, eventVars, keyVars, frames, access, uploadVars>>

\* Register(method, handler...): e.Methods[method] = &Method{...}, replacing.
Register(name, hs) ==
    /\ phase = "setup"
    /\ Methods' = (name :> hs) @@ Methods
    /\ UNCHANGED <<phase, handlers, noMethod, sessionVars, dispatchVars, eventVars, keyVars, frames, access, uploadVars>>

\* NoMethod(handler...): e.noMethod = handler.
NoMethod(hs) ==
    /\ phase = "setup"
    /\ noMethod' = hs
    /\ UNCHANGED <<phase, handlers, Methods, sessionVars, dispatchVars, eventVars, keyVars, frames, access, uploadVars>>

\* Run(): installs messageHandler and connectHandler (and no disconnect
\* handler) on the transport and starts serving.
Run ==
    /\ phase = "setup"
    /\ phase' = "serving"
    /\ UNCHANGED <<handlers, Methods, noMethod, sessionVars, dispatchVars, eventVars, keyVars, frames, access, uploadVars>>

\* Len(): len(e.Sessions).
EngineLen == Cardinality(DOMAIN Sessions)

(* ---------------------------- connections ------------------------------ *)

\* connectHandler(s): a fresh ID is stored on the connection and a session
\* under that ID is put in the registry.
connectHandler(c) ==
    /\ phase = "serving"
    /\ conn[c] = "new"
    /\ \A d \in Conns : d < c => conn[d] # "new"
    /\ conn' = [conn EXCEPT ![c] = "open"]
    /\ connID' = [connID EXCEPT ![c] = nextID]
    /\ Sessions' = (nextID :> [Keys |-> EmptyMap]) @@ Sessions
    /\ nextID' = nextID + 1
    /\ lastEmit' = NoEmit
    /\ UNCHANGED <<engineVars, dispatchVars, Events, declared, subscribed, keyVars, frames, access, uploadVars>>

\* The transport's disconnect notification. Run registers no handler for it,
\* so the connection closes and no engine state changes. It comes from the
\* connection's own goroutine, after its last frame was handled. What was
\* observed of that frame (req, log, written) ends with the connection.
Disconnect(c) ==
    /\ conn[c] = "open"
    /\ ctx[c].pc = "idle"
    /\ conn' = [conn EXCEPT ![c] = "closed"]
    /\ req' = [req EXCEPT ![c] = NoFrame]
    /\ log' = [log EXCEPT ![c] = << >>]
    /\ written' = [written EXCEPT ![c] = << >>]
    /\ lastEmit' = NoEmit
    /\ UNCHANGED <<engineVars, Sessions, nextID, connID, ctx, Events, declared,
                   subscribed, keyVars, frames, access, uploadVars>>

(* ------------------------------ dispatch ------------------------------- *)

\* Mutant of InvalidResponse: the decode failure is reported as not found.
InvalidResponseNotFound ==
    [ID |-> 0, Code |-> StatusNotFound, Event |-> "", Message |-> ErrDecode]

\* Response{Error: ResponseError{Code: StatusInvalid, Message: err.Error()}}:
\* the reply to a frame that does not decode; it carries no correlation ID.
InvalidResponse ==
    [ID |-> 0, Code |-> StatusInvalid, Event |-> "", Message |-> ErrDecode]

\* What a handler writes when it responds: the request's correlation ID and
\* the status code the handler chooses.
HandlerCode(h) == IF h = "N" THEN StatusNotFound ELSE StatusOK
Respond(id, h) == [ID |-> id, Code |-> HandlerCode(h), Event |-> "", Message |-> ""]

\* Mutant of HasSession: the results of the two lookups are not checked.
HasSessionUnchecked(c) == TRUE

\* s.Get("ID") and e.Sessions[id]: the session of a connection, if any.
HasSession(c) == connID[c] # 0 /\ connID[c] \in DOMAIN Sessions

\* Mutant of Intercepted: the reserved name is not recognised.
InterceptedNever(f) == FALSE

\* req.Method == "MegoInitialize": the reserved call is handled internally.
Intercepted(f) == f.Method = MegoInitialize

\* Mutant of InitKeys: a payload that does not decode empties the Keys.
InitKeysClearOnError(old, p) == IF p.ok THEN p.keys ELSE EmptyMap

\* Mutant of InitKeys: the decoded mapping is laid over the old Keys.
InitKeysMerge(old, p) == IF p.ok THEN Merge(old, p.keys) ELSE old

\* The session's Keys after an initialization call: the decoded mapping when
\* the payload decodes (sess.Keys = keys), the old Keys when it does not.
InitKeys(old, p) == IF p.ok THEN p.keys ELSE old

\* The context's handler chain when append allocates: the global middleware
\* followed by the method's handlers.
Chain(global, own) == global \o own

\* Mutant of ContextID: the request's ID is not copied into the context.
ContextIDUnset(f) == 0

\* Context{ID: req.ID}: the correlation ID a context answers with.
ContextID(f) == f.ID

\* The handler a context's chain holds at position i.
HandlerAt(x, i) == IF x.shared THEN handlers.arr[i] ELSE x.own[i]

\* The context messageHandler builds for a registered method. ctx.handlers
\* starts as e.handlers (same backing array); append then writes the method's
\* handlers into that array's spare capacity when they fit, and copies
\* otherwise. Nothing runs when the resulting chain is empty.
NewContext(f) ==
    LET mh == Methods[f.Method]
        base == [IdleCtx EXCEPT !.Method = f.Method, !.ID = ContextID(f)]
    IN  IF Len(mh) = 0
        THEN IF handlers.len = 0 THEN IdleCtx
             ELSE [base EXCEPT !.pc = "call", !.shared = TRUE,
                               !.len = handlers.len, !.index = 1]
        ELSE IF Fits(handlers, mh)
        THEN [base EXCEPT !.pc = "append", !.shared = TRUE,
                          !.len = handlers.len, !.k = 1]
        ELSE [base EXCEPT !.pc = "call", !.own = Chain(Elems(handlers), mh),
                          !.len = handlers.len + Len(mh), !.index = 1]

\* messageHandler(s, msg), up to the point where the context is built.
messageHandler(c, f) ==
    /\ conn[c] = "open"
    /\ ctx[c].pc = "idle"
    /\ frames < MaxFrames
    /\ frames' = frames + 1
    /\ req' = [req EXCEPT ![c] = f]
    /\ log' = [log EXCEPT ![c] = << >>]
    /\ CASE ~f.ok ->
              \* the frame does not decode: one StatusInvalid response
              /\ written' = [written EXCEPT ![c] = <<InvalidResponse>>]
              /\ UNCHANGED <<Sessions, conn, ctx>>
         [] f.ok /\ ~HasSession(c) ->
              \* no session for this connection: dropped
              /\ written' = [written EXCEPT ![c] = << >>]
              /\ UNCHANGED <<Sessions, conn, ctx>>
         [] f.ok /\ HasSession(c) /\ Intercepted(f) ->
              /\ Sessions' = [Sessions EXCEPT ![connID[c]].Keys = InitKeys(@, f.Params)]
              /\ written' = [written EXCEPT ![c] = << >>]
              /\ UNCHANGED <<conn, ctx>>
         [] f.ok /\ HasSession(c) /\ ~Intercepted(f) /\ f.Method \notin DOMAIN Methods ->
              \* method is nil and method.Handlers dereferences it: the
              \* goroutine serving the connection panics
              /\ conn' = [conn EXCEPT ![c] = "panic"]
              /\ written' = [written EXCEPT ![c] = << >>]
              /\ UNCHANGED <<Sessions, ctx>>
         [] OTHER ->
              /\ ctx' = [ctx EXCEPT ![c] = NewContext(f)]
              /\ written' = [written EXCEPT ![c] = << >>]
              /\ UNCHANGED <<Sessions, conn>>
    /\ IF f.ok /\ f.Method = MegoInitialize /\ f.Params.ok
       THEN /\ sentKeys' = [sentKeys EXCEPT ![c] = Merge(@, f.Params.keys)]
            /\ lastKeys' = [lastKeys EXCEPT ![c] = f.Params.keys]
       ELSE UNCHANGED keyVars
    /\ access' = [access EXCEPT ![c] = "none"]
    /\ UNCHANGED <<engineVars, nextID, connID, eventVars, uploadVars>>

\* One element of an in-place append(ctx.handlers, method.Handlers...): the
\* k-th handler of the method is stored in the shared backing array, behind
\* the global middleware.
AppendStep(c) ==
    /\ ctx[c].pc = "append"
    /\ LET x == ctx[c]
           mh == Methods[x.Method]
       IN  /\ handlers' = [handlers EXCEPT !.arr[x.len + x.k] = mh[x.k]]
           /\ ctx' = [ctx EXCEPT ![c] =
                        IF x.k = Len(mh)
                        THEN [x EXCEPT !.pc = "call", !.len = x.len + Len(mh),
                                       !.index = 1, !.k = 0]
                        ELSE [x EXCEPT !.k = x.k + 1]]
    /\ UNCHANGED <<phase, Methods, noMethod, sessionVars, req, log, written, eventVars, keyVars, frames, access, uploadVars>>

\* The responses a handler may still write for this request.
RespondChoices(c) == IF Len(written[c]) < MaxWrites THEN BOOLEAN ELSE {FALSE}

\* ctx.handlers[index](ctx): the handler at the cursor runs. It responds or
\* not, and advances or not; dispatch ends when it does not advance or the
\* chain is exhausted.
RunHandler(c) ==
    /\ ctx[c].pc = "call"
    /\ LET x == ctx[c]
           h == HandlerAt(x, x.index)
       IN  /\ log' = [log EXCEPT ![c] = Append(@, h)]
           /\ \E responds \in RespondChoices(c), advances \in BOOLEAN :
                /\ written' = [written EXCEPT ![c] =
                                 IF responds THEN Append(@, Respond(x.ID, h)) ELSE @]
                /\ ctx' = [ctx EXCEPT ![c] =
                             IF advances /\ x.index < x.len
                             THEN [x EXCEPT !.index = x.index + 1]
                             ELSE IdleCtx]
    /\ UNCHANGED <<engineVars, sessionVars, req, eventVars, keyVars, frames, access, uploadVars>>

(* ------------------------- events and channels ------------------------- *)

\* Event(name): e.Events[name] = &Event{Name: name}, an event with no channel.
Event(name) ==
    /\ Events' = (name :> EmptyMap) @@ Events
    /\ declared' = declared \cup {name}
    /\ lastEmit' = NoEmit
    /\ UNCHANGED <<engineVars, sessionVars, dispatchVars, subscribed, keyVars, frames, access, uploadVars>>

\* subscribe(event, channel, session): the channel is created if absent and
\* the session of an open connection joins its subscriber set.
Subscribe(ev, ch, c) ==
    /\ conn[c] = "open"
    /\ HasSession(c)
    /\ ev \in DOMAIN Events
    /\ LET old == IF ch \in DOMAIN Events[ev] THEN Events[ev][ch] ELSE {}
       IN  /\ connID[c] \notin old
           /\ Events' = [Events EXCEPT ![ev] = (ch :> (old \cup {connID[c]})) @@ @]
    /\ subscribed' = subscribed \cup {<<ev, ch>>}
    /\ lastEmit' = NoEmit
    /\ UNCHANGED <<engineVars, sessionVars, dispatchVars, declared, keyVars, frames, access, uploadVars>>

\* unsubscribe(event, channel, session): the session leaves the channel.
Unsubscribe(ev, ch, c) ==
    /\ conn[c] = "open"
    /\ HasSession(c)
    /\ ev \in DOMAIN Events
    /\ ch \in DOMAIN Events[ev]
    /\ connID[c] \in Events[ev][ch]
    /\ Events' = [Events EXCEPT ![ev][ch] = @ \ {connID[c]}]
    /\ lastEmit' = NoEmit
    /\ UNCHANGED <<engineVars, sessionVars, dispatchVars, declared, subscribed,
                   keyVars, frames, access, uploadVars>>

\* Mutant of Deliveries: every channel of the event is written to.
DeliveriesAllChannels(ev, ch) ==
    [s \in UNION {Events[ev][x] : x \in DOMAIN Events[ev]} |-> 1]

\* The sessions Emit writes Response{Event, Result} to, with the number of
\* writes to each: one to every session of the channel looked up.
Deliveries(ev, ch) == [s \in Events[ev][ch] |-> 1]

\* Mutant of EmitResult: an unknown event is reported as an unknown channel.
EmitResultWrongError(ev, ch) ==
    IF ev \notin DOMAIN Events \/ ch \notin DOMAIN Events[ev]
    THEN [err |-> ErrChannelNotFound, to |-> EmptyMap]
    ELSE [err |-> ErrNone, to |-> Deliveries(ev, ch)]

\* Mutant of EmitResult: the result of the channel lookup is not checked.
EmitResultNoChannelCheck(ev, ch) ==
    IF ev \notin DOMAIN Events
    THEN [err |-> ErrEventNotFound, to |-> EmptyMap]
    ELSE IF ch \notin DOMAIN Events[ev]
    THEN [err |-> ErrNone, to |-> EmptyMap]
    ELSE [err |-> ErrNone, to |-> Deliveries(ev, ch)]

\* Emit(event, channel, result): the error returned and the deliveries made.
\* The channel is looked up by its name as given, the empty name included.
EmitResult(ev, ch) ==
    IF ev \notin DOMAIN Events
    THEN [err |-> ErrEventNotFound, to |-> EmptyMap]
    ELSE IF ch \notin DOMAIN Events[ev]
    THEN [err |-> ErrChannelNotFound, to |-> EmptyMap]
    ELSE [err |-> ErrNone, to |-> Deliveries(ev, ch)]

Emit(ev, ch) ==
    /\ lastEmit' = [called |-> TRUE, event |-> ev, channel |-> ch,
                    err |-> EmitResult(ev, ch).err, to |-> EmitResult(ev, ch).to,
                    resp |-> EventResponse(ev)]
    /\ UNCHANGED <<engineVars, sessionVars, dispatchVars, Events, declared,
                   subscribed, keyVars, frames, access, uploadVars>>

(* ------------------------------- frames -------------------------------- *)

NoParams == GoodParams(EmptyMap)

\* The frames of the dispatch specification: an undecodable one, a request
\* for every name that is not reserved, and initialization calls.
DispatchFrames ==
    {BadFrame}
    \cup {Request(m, id, NoParams) : m \in RequestNames \ {MegoInitialize}, id \in ReqIDs}
    \cup {Request(MegoInitialize, id, p) :
            id \in ReqIDs, p \in {BadParams, GoodParams("a" :> 1)}}

\* Initialization payloads: a first mapping, one that changes its value, one
\* with another key, and one that does not decode.
InitPayloads ==
    {BadParams, GoodParams("a" :> 1), GoodParams("a" :> 2), GoodParams("b" :> 1)}
InitFrames == {Request(MegoInitialize, id, p) : id \in ReqIDs, p \in InitPayloads}

\* The frames of the registry-access specification: all go through the
\* session lookup; one writes the session found, one names no method.
RaceFrames ==
    {Request(MegoInitialize, id, p) :
        id \in ReqIDs, p \in {BadParams, GoodParams("a" :> 1)}}
    \cup {Request("Ghost", id, NoParams) : id \in ReqIDs}

\* The frames of the replies specification: an undecodable one and requests
\* under two correlation IDs, for a registered name and one that is not.
ReplyIDs == {7, 8}
ReplyFrames ==
    {BadFrame} \cup {Request(m, id, NoParams) : m \in {"Sum", "Ghost"}, id \in ReplyIDs}
ReceiveReply(c) == \E f \in ReplyFrames : messageHandler(c, f)

Receive(c) == \E f \in DispatchFrames : messageHandler(c, f)
ReceiveInit(c) == \E f \in InitFrames : messageHandler(c, f)

(* --------------------------- chunked uploads --------------------------- *)

\* ReceiveWith(method, processor, handler...): the method is registered and
\* gets its chunk processor; the host sets the returned method's Option.
ReceiveWith(hs, opt) ==
    /\ phase = "setup"
    /\ Methods' = (UploadMethod :> hs) @@ Methods
    /\ methodOption' = opt
    /\ UNCHANGED <<phase, handlers, noMethod, sessionVars, dispatchVars, eventVars,
                   keyVars, frames, access, uploads>>

\* Mutant of Effective: the method's override is ignored.
EffectiveEngineOnly(override, default) == default

\* An effective limit: the method's override if set, else the engine default.
Effective(override, default) == IF override # 0 THEN override ELSE default

EffectiveMaxChunkSize == Effective(methodOption.MaxChunkSize, EngineMaxChunkSize)
EffectiveMaxFileSize == Effective(methodOption.MaxFileSize, EngineMaxFileSize)

\* Mutant of ChunkCode: the running total is not compared with MaxFileSize.
ChunkCodeNoFileLimit(size, total, final, procOk) ==
    IF size = 0 THEN StatusFileEmpty
    ELSE IF size > EffectiveMaxChunkSize THEN StatusFileTooLarge
    ELSE IF ~procOk THEN StatusFileRetry
    ELSE IF final THEN StatusOK
    ELSE StatusFileNext

\* The status a chunk of the given size gets when the upload's running total
\* is total: empty, too large for the chunk or the file limit, and, handed
\* to the processor, retry when the processor fails, else next (or, for the
\* final chunk, the completion of the upload).
ChunkCode(size, total, final, procOk) ==
    IF size = 0 THEN StatusFileEmpty
    ELSE IF size > EffectiveMaxChunkSize \/ total + size > EffectiveMaxFileSize
    THEN StatusFileTooLarge
    ELSE IF ~procOk THEN StatusFileRetry
    ELSE IF final THEN StatusOK
    ELSE StatusFileNext

Accepted(code) == code \in {StatusFileNext, StatusOK}

\* One chunk of the upload keyed by the connection's session and the upload
\* method. A chunk after a completed or aborted upload starts a new one.
receiveChunk(c, size, final, procOk) ==
    /\ phase = "serving"
    /\ conn[c] = "open"
    /\ HasSession(c)
    /\ UploadMethod \in DOMAIN Methods
    /\ frames < MaxChunks
    /\ frames' = frames + 1
    /\ LET u == IF uploads[c].state = "Receiving" THEN uploads[c] ELSE NoUpload
           code == ChunkCode(size, u.total, final, procOk)
       IN  uploads' = [uploads EXCEPT ![c] =
               [state |-> IF Accepted(code) /\ final THEN "Completed" ELSE "Receiving",
                total |-> IF Accepted(code) THEN u.total + size ELSE u.total,
                accepted |-> IF Accepted(code) THEN Append(u.accepted, size)
                             ELSE u.accepted,
                last |-> [size |-> size, code |-> code, before |-> u.total,
                          seen |-> TRUE]]]
    /\ UNCHANGED <<engineVars, sessionVars, dispatchVars, eventVars, keyVars,
                   access, methodOption>>

\* The client ends the upload: StatusFileAbort, the accumulator is discarded.
abortUpload(c) ==
    /\ phase = "serving"
    /\ conn[c] = "open"
    /\ uploads[c].state = "Receiving"
    /\ uploads' = [uploads EXCEPT ![c] =
            [NoUpload EXCEPT !.state = "Aborted",
                             !.last = [NoChunk EXCEPT !.code = StatusFileAbort]]]
    /\ UNCHANGED <<engineVars, sessionVars, dispatchVars, eventVars, keyVars,
                   frames, access, methodOption>>

(* ------------------- accesses to the session registry ------------------ *)

\* Engine.Sessions is a plain map and no lock guards it. The handlers of
\* different connections run on different goroutines, so the map assignment
\* of connectHandler and the map lookup of messageHandler take time during
\* which another connection's handler may reach the map as well. An access
\* in progress is "read" or "write"; "read!" and "write!" are accesses that
\* overlapped another one with a write among the two: a data race.
IsWrite(a) == a \in {"write", "write!"}
Raced(a) == a \in {"read!", "write!"}
Mark(a) == IF a \in {"read", "read!"} THEN "read!" ELSE "write!"
Conflicts(a, b) == a # "none" /\ b # "none" /\ (IsWrite(a) \/ IsWrite(b))

\* Connection c starts an access of the given kind: it and every access in
\* progress that conflicts with it are marked as raced.
BeginAccess(c, kind) ==
    [x \in Conns |->
        IF x = c
        THEN IF \E d \in Conns \ {c} : Conflicts(kind, access[d])
             THEN Mark(kind) ELSE kind
        ELSE IF Conflicts(access[x], kind) THEN Mark(access[x]) ELSE access[x]]

\* What a map assignment leaves behind: the entry, or, when it raced with
\* another access, possibly nothing.
StoreOutcomes(a) == IF Raced(a) THEN {"stored", "lost"} ELSE {"stored"}

\* connectHandler up to the map assignment: the fresh ID is stored on the
\* connection and the assignment e.Sessions[id] = ... begins.
connectBegin(c) ==
    /\ phase = "serving"
    /\ conn[c] = "new"
    /\ \A d \in Conns : d < c => conn[d] # "new"
    /\ conn' = [conn EXCEPT ![c] = "connecting"]
    /\ connID' = [connID EXCEPT ![c] = nextID]
    /\ nextID' = nextID + 1
    /\ access' = BeginAccess(c, "write")
    /\ lastEmit' = NoEmit
    /\ UNCHANGED <<engineVars, Sessions, dispatchVars, Events, declared,
                   subscribed, keyVars, frames, uploadVars>>

\* The map assignment of connectHandler completes.
connectEnd(c) ==
    /\ phase = "serving"
    /\ conn[c] = "connecting"
    /\ \E outcome \in StoreOutcomes(access[c]) :
          Sessions' = IF outcome = "stored"
                      THEN (connID[c] :> [Keys |-> EmptyMap]) @@ Sessions
                      ELSE Sessions
    /\ conn' = [conn EXCEPT ![c] = "open"]
    /\ access' = [access EXCEPT ![c] = "none"]
    /\ UNCHANGED <<engineVars, nextID, connID, dispatchVars, eventVars,
                   keyVars, frames, uploadVars>>

\* messageHandler up to the lookup e.Sessions[id] of a frame that decoded.
lookupBegin(c) ==
    /\ phase = "serving"
    /\ conn[c] = "open"
    /\ ctx[c].pc = "idle"
    /\ access[c] = "none"
    /\ frames < MaxFrames
    /\ access' = BeginAccess(c, "read")
    /\ UNCHANGED <<engineVars, sessionVars, dispatchVars, eventVars, keyVars,
                   frames, uploadVars>>

\* The lookup completes with what the map holds and messageHandler goes on.
lookupEnd(c) ==
    /\ phase = "serving"
    /\ access[c] \in {"read", "read!"}
    /\ \E f \in RaceFrames : messageHandler(c, f)

\* A lookup that raced with an assignment misses the connection's session,
\* although the map holds it: messageHandler returns and the frame is dropped.
lookupMiss(c) ==
    /\ phase = "serving"
    /\ access[c] = "read!"
    /\ \E f \in RaceFrames :
        /\ frames' = frames + 1
        /\ req' = [req EXCEPT ![c] = f]
        /\ log' = [log EXCEPT ![c] = << >>]
        /\ written' = [written EXCEPT ![c] = << >>]
    /\ access' = [access EXCEPT ![c] = "none"]
    /\ UNCHANGED <<engineVars, sessionVars, ctx, eventVars, keyVars, uploadVars>>

\* The runtime notices the concurrent map access and ends the process.
raceDetected(c) ==
    /\ phase = "serving"
    /\ Raced(access[c])
    /\ phase' = "crashed"
    /\ UNCHANGED <<handlers, Methods, noMethod, sessionVars, dispatchVars,
                   eventVars, keyVars, frames, access, uploadVars>>

\* The transport's disconnect notification, between two handler calls.
disconnectQuiet(c) ==
    /\ phase = "serving"
    /\ access[c] = "none"
    /\ Disconnect(c)

(* --------------------------- specifications ---------------------------- *)

\* Set-up, connections and the dispatch of frames.
Next ==
    \/ \E n \in UseSizes : Use(n)
    \/ \E name \in MethodNames : \E hs \in ChainsOf(name) : Register(name, hs)
    \/ \E hs \in NoMethodChains : NoMethod(hs)
    \/ Run
    \/ \E c \in Dispatchers : connectHandler(c)
    \/ \E c \in Dispatchers : Disconnect(c)
    \/ \E c \in Dispatchers : Receive(c)
    \/ \E c \in Dispatchers : AppendStep(c)
    \/ \E c \in Dispatchers : RunHandler(c)

Spec == Init /\ [][Next]_vars

\* Sessions and their Keys: connections and initialization calls on an
\* engine with no middleware and no methods.
NextKeys ==
    \/ Run
    \/ \E c \in Conns : connectHandler(c)
    \/ \E c \in Conns : Disconnect(c)
    \/ \E c \in Conns : ReceiveInit(c)

SpecKeys == Init /\ [][NextKeys]_vars

\* Events and channels: declarations, subscriptions of connected sessions,
\* disconnects and emits.
NextEvents ==
    \/ Run
    \/ \E c \in Conns : connectHandler(c)
    \/ \E c \in Conns : Disconnect(c)
    \/ \E ev \in EventNames : Event(ev)
    \/ \E ev \in EventNames, ch \in ChannelNames, c \in Conns : Subscribe(ev, ch, c)
    \/ \E ev \in EventNames, ch \in ChannelNames, c \in Conns : Unsubscribe(ev, ch, c)
    \/ \E ev \in EmitEvents, ch \in EmitChannels : Emit(ev, ch)

SpecEvents == Init /\ [][NextEvents]_vars

\* The session registry under concurrent handlers: connects and frames of
\* independent connections, with each access to Engine.Sessions taking time.
NextRace ==
    \/ Run
    \/ \E c \in Dispatchers : connectBegin(c)
    \/ \E c \in Dispatchers : connectEnd(c)
    \/ \E c \in Dispatchers : lookupBegin(c)
    \/ \E c \in Dispatchers : lookupEnd(c)
    \/ \E c \in Dispatchers : lookupMiss(c)
    \/ \E c \in Dispatchers : raceDetected(c)
    \/ \E c \in Dispatchers : disconnectQuiet(c)

SpecRace == Init /\ [][NextRace]_vars

\* Uploads: an upload method registered with its options, connections and
\* the chunks they send.
NextUpload ==
    \/ \E hs \in ChainsOf(UploadMethod), opt \in MethodOptions : ReceiveWith(hs, opt)
    \/ Run
    \/ \E c \in Dispatchers : connectHandler(c)
    \/ \E c \in Dispatchers, size \in ChunkSizes, final \in BOOLEAN, procOk \in BOOLEAN :
          receiveChunk(c, size, final, procOk)
    \/ \E c \in Dispatchers : abortUpload(c)

SpecUpload == Init /\ [][NextUpload]_vars

\* Everything written to connections: the replies to requests on an engine
\* with one method and no middleware, and the deliveries of emits.
NextReplies ==
    \/ \E hs \in ChainsOf("Sum") : Register("Sum", hs)
    \/ Run
    \/ \E c \in Dispatchers : connectHandler(c)
    \/ \E c \in Dispatchers : ReceiveReply(c)
    \/ \E c \in Dispatchers : RunHandler(c)
    \/ \E ev \in EventNames : Event(ev)
    \/ \E ev \in EventNames, c \in Dispatchers : Subscribe(ev, "room1", c)
    \/ \E ev \in EmitEvents, ch \in EmitChannels : Emit(ev, ch)

SpecReplies == Init /\ [][NextReplies]_vars

(* ------------------------------- claims -------------------------------- *)

IsPrefix(s, t) == Len(s) <= Len(t) /\ SubSeq(t, 1, Len(s)) = s

OpenConns == {c \in Conns : conn[c] = "open"}
KeysOf(c) == Sessions[connID[c]].Keys
\* Every session that is in some channel of the event.
SubscribersOf(ev) == UNION {Events[ev][ch] : ch \in DOMAIN Events[ev]}
\* A request that gets past decoding, session lookup and the reserved names.
Dispatched(c) == req[c].ok /\ HasSession(c) /\ req[c].Method # MegoInitialize

\* C1: the session registry holds exactly as many sessions as there are open
\* connections, after every sequence of connects and disconnects.
C1_RegistrySizeIsOpenConns == EngineLen = Cardinality(OpenConns)

\* C2: the session of a closed connection is in no channel of any event, and
\* an emit made after the disconnect delivers nothing to it.
C2_ClosedSessionInNoChannel ==
    \A c \in Conns :
        conn[c] = "closed" =>
            /\ \A ev \in DOMAIN Events : connID[c] \notin SubscribersOf(ev)
            /\ connID[c] \notin DOMAIN lastEmit.to

\* C3: the handlers run for a request to a registered method are, in order,
\* the global middleware followed by that method's own handlers (a prefix of
\* them when a handler does not advance).
C3_ChainOrder ==
    \A c \in Conns :
        Dispatched(c) /\ req[c].Method \in DOMAIN Methods =>
            IsPrefix(log[c], Chain(SubSeq(MiddlewareOrder, 1, handlers.len),
                                   Methods[req[c].Method]))

\* C4: with a not-found chain configured, a request for a method that is not
\* registered does not crash the dispatch, and what runs for it is that
\* chain, from its first handler on.
C4_NotFoundChainRuns ==
    \A c \in Conns :
        Dispatched(c) /\ req[c].Method \notin DOMAIN Methods /\ noMethod # << >> =>
            /\ conn[c] # "panic"
            /\ IsPrefix(log[c], noMethod)
            /\ (ctx[c].pc = "idle" => log[c] # << >>)

\* C5: an emit with the empty channel name on a declared event delivers once
\* to every session subscribed to some channel of the event, and to no other.
C5_EmptyChannelBroadcasts ==
    lastEmit.called /\ lastEmit.channel = "" /\ lastEmit.event \in DOMAIN Events =>
        lastEmit.to = [s \in SubscribersOf(lastEmit.event) |-> 1]

\* C6: an emit on a declared event with a non-empty name of an existing
\* channel succeeds and delivers once to every subscriber of that channel,
\* and to no session that is only in other channels.
C6_NamedChannelDelivery ==
    ( /\ lastEmit.called
      /\ lastEmit.channel # ""
      /\ lastEmit.event \in DOMAIN Events
      /\ lastEmit.channel \in DOMAIN Events[lastEmit.event] ) =>
        /\ lastEmit.err = ErrNone
        /\ DOMAIN lastEmit.to = Events[lastEmit.event][lastEmit.channel]
        /\ \A s \in DOMAIN lastEmit.to : lastEmit.to[s] = 1

\* C6 witness: two sessions on "room1", a third on "room2" only, and an emit
\* to "room1" that reached exactly the first two.
C6_Witness ==
    /\ lastEmit.called /\ lastEmit.event = "chat" /\ lastEmit.channel = "room1"
    /\ "chat" \in DOMAIN Events
    /\ DOMAIN Events["chat"] = {"room1", "room2"}
    /\ Cardinality(Events["chat"]["room1"]) = 2
    /\ Events["chat"]["room2"] \ Events["chat"]["room1"] # {}
    /\ DOMAIN lastEmit.to = Events["chat"]["room1"]

\* C7: an emit on an event name never declared fails with ErrEventNotFound,
\* whatever the channel name, and delivers nothing.
C7_UndeclaredEventFails ==
    lastEmit.called /\ lastEmit.event \notin declared =>
        lastEmit.err = ErrEventNotFound /\ lastEmit.to = EmptyMap

\* C7 witness: an emit with the empty channel name on the undeclared "news"
\* failed, while a declared event has a subscriber.
C7_Witness ==
    /\ lastEmit.called /\ lastEmit.event = "news" /\ lastEmit.channel = ""
    /\ lastEmit.err = ErrEventNotFound
    /\ "news" \notin declared
    /\ \E ev \in DOMAIN Events : SubscribersOf(ev) # {}

\* C8: an emit on a declared event with a non-empty channel name never
\* subscribed to fails with ErrChannelNotFound and delivers nothing.
C8_UnsubscribedChannelFails ==
    ( /\ lastEmit.called
      /\ lastEmit.event \in declared
      /\ lastEmit.channel # ""
      /\ <<lastEmit.event, lastEmit.channel>> \notin subscribed ) =>
        lastEmit.err = ErrChannelNotFound /\ lastEmit.to = EmptyMap

\* C8 witness: the event was only declared (it has no channel at all) and an
\* emit to "room1" failed with ErrChannelNotFound.
C8_Witness ==
    /\ lastEmit.called /\ lastEmit.event = "chat" /\ lastEmit.channel = "room1"
    /\ "chat" \in declared
    /\ subscribed = {}
    /\ Events["chat"] = EmptyMap
    /\ lastEmit.err = ErrChannelNotFound

C10_InitializeNeverDispatched ==
    \A c \in Conns :
        req[c].ok /\ req[c].Method = MegoInitialize =>
            /\ ctx[c].pc = "idle"
            /\ log[c] = << >>
            /\ written[c] = << >>
            /\ conn[c] # "panic"

\* C10 witness: global middleware, a method registered under the reserved
\* name and a not-found chain are all set, one connection sent a payload
\* that decoded and another one that did not.
C10_Witness ==
    /\ handlers.len > 0
    /\ MegoInitialize \in DOMAIN Methods
    /\ noMethod # << >>
    /\ \E c, d \in Conns :
        /\ req[c].ok /\ req[c].Method = MegoInitialize /\ req[c].Params.ok
        /\ KeysOf(c) = req[c].Params.keys
        /\ req[d].ok /\ req[d].Method = MegoInitialize /\ ~req[d].Params.ok

\* C11: a frame that does not decode gets exactly one response, with status
\* StatusInvalid and the decode error as its message; no handler runs for it,
\* no context is built, and handling it changes no session and no registry.
C11_UndecodableFrame ==
    /\ [](\A c \in Conns :
            req[c] = BadFrame =>
                /\ Len(written[c]) = 1
                /\ written[c][1].Code = StatusInvalid
                /\ written[c][1].Message = ErrDecode
                /\ log[c] = << >>
                /\ ctx[c].pc = "idle"
                /\ conn[c] = "open")
    /\ [][\A c \in Conns :
            messageHandler(c, BadFrame) =>
                UNCHANGED <<Sessions, connID, conn, ctx, Methods, handlers,
                            noMethod, Events>>]_vars

\* C11 witness: middleware and methods are registered, the connection's
\* session holds keys, and its next frame did not decode.
C11_Witness ==
    /\ handlers.len > 0
    /\ Methods # EmptyMap
    /\ \E c \in Conns :
        /\ req[c] = BadFrame
        /\ HasSession(c)
        /\ KeysOf(c) # EmptyMap
        /\ written[c] # << >>

\* C12: the sessions registered for open connections never number more than
\* the configured MaxSessions; a connection arriving at the ceiling gets none.
C12_SessionsWithinMax ==
    Cardinality({c \in OpenConns : HasSession(c)}) <= MaxSessions

\* C13: declaring an event that is already declared changes nothing: its
\* channels and their subscriber sets are after the call what they were.
C13_EventIdempotent ==
    [][\A ev \in EventNames :
          (ev \in DOMAIN Events /\ Event(ev)) => Events' = Events]_vars

\* C14: no two handlers are inside Engine.Sessions at the same time with one
\* of them writing, and every connection that finished connecting has its
\* session in the registry.
C14_RegistryAccessExclusive ==
    /\ \A c, d \in Conns : c # d => ~Conflicts(access[c], access[d])
    /\ \A c \in Conns : conn[c] = "open" => HasSession(c)

\* The limit the configuration asks for: the method's value where it has one.
ConfiguredLimit(override, default) == IF override = 0 THEN default ELSE override
ChunkLimit == ConfiguredLimit(methodOption.MaxChunkSize, EngineMaxChunkSize)
FileLimit == ConfiguredLimit(methodOption.MaxFileSize, EngineMaxFileSize)

RECURSIVE SumOf(_)
SumOf(sizes) == IF sizes = << >> THEN 0 ELSE Head(sizes) + SumOf(Tail(sizes))

C17_CorrelationIDs ==
    /\ \A c \in Conns : \A i \in DOMAIN written[c] :
          LET w == written[c][i]
          IN  /\ w.Event = ""
              /\ w.ID = IF req[c].ok THEN req[c].ID ELSE 0
    /\ lastEmit.called =>
          /\ lastEmit.resp.Event = lastEmit.event
          /\ lastEmit.resp.ID = 0

\* C17 witness: two connections got replies to requests with different IDs,
\* and an emit was delivered to a subscriber.
C17_Witness ==
    /\ \E c, d \in Conns :
        /\ req[c].ok /\ req[d].ok /\ req[c].ID # req[d].ID
        /\ written[c] # << >> /\ written[d] # << >>
        /\ written[c][1].ID = req[c].ID
        /\ written[d][1].ID = req[d].ID
    /\ lastEmit.called /\ lastEmit.to # EmptyMap /\ lastEmit.event = "chat"

\* C18: a frame that decodes, on a connection whose stored ID is not in the
\* session registry (or that has no stored ID), is dropped: nothing is
\* written, no handler runs, no context is built, the dispatch does not
\* fail, and handling it changes no registry.
C18_NoSessionFrameDropped ==
    /\ [](\A c \in Conns :
            req[c].ok /\ connID[c] \notin DOMAIN Sessions =>
                /\ written[c] = << >>
                /\ log[c] = << >>
                /\ ctx[c].pc = "idle"
                /\ conn[c] = "open")
    /\ [][\A c \in Conns : \A f \in RaceFrames :
            messageHandler(c, f) /\ connID[c] \notin DOMAIN Sessions =>
                UNCHANGED <<Sessions, Methods, Events, handlers, noMethod>>]_vars

\* C18 witness: a connection finished connecting but its session is not in
\* the registry, another connection's is and holds keys, and a request of
\* the first was handled.
C18_Witness ==
    \E c, d \in Conns :
        /\ conn[c] = "open" /\ connID[c] # 0
        /\ connID[c] \notin DOMAIN Sessions
        /\ req[c].ok /\ req[c].Method = "Ghost"
        /\ HasSession(d) /\ KeysOf(d) # EmptyMap

\* The handler chain a context holds, read through its slice.
ChainOf(c) == IF ctx[c].shared THEN SubSeq(handlers.arr, 1, ctx[c].len) ELSE ctx[c].own

\* C19: whatever other connections dispatch meanwhile, the chain of a
\* context that has been built is the global middleware followed by the
\* handlers of its own method, and the global middleware is what Use left.
C19_ContextOwnsChain ==
    /\ Elems(handlers) = SubSeq(MiddlewareOrder, 1, handlers.len)
    /\ \A c \in Conns :
          ctx[c].pc = "call" =>
              ChainOf(c) = Chain(Elems(handlers), Methods[ctx[c].Method])

\* C20: an initialization call changes at most the Keys of the session of
\* the connection it arrived on: no session is added or removed, every other
\* session and every registry stay as they were, and when the payload does
\* not decode that session's Keys stay as they were too.
C20_InitTouchesOwnKeysOnly ==
    [][\A c \in Conns : \A f \in InitFrames :
          messageHandler(c, f) =>
              /\ DOMAIN Sessions' = DOMAIN Sessions
              /\ \A id \in DOMAIN Sessions :
                    id # connID[c] \/ ~f.Params.ok => Sessions'[id] = Sessions[id]
              /\ UNCHANGED <<connID, Methods, Events, handlers, noMethod>>]_vars

\* C20 witness: a session holds keys from an earlier call, its connection's
\* last call had a payload that did not decode, and another session exists.
C20_Witness ==
    \E c, d \in Conns :
        /\ c # d /\ HasSession(c) /\ HasSession(d)
        /\ req[c].ok /\ req[c].Method = MegoInitialize /\ ~req[c].Params.ok
        /\ KeysOf(c) # EmptyMap
        /\ KeysOf(c) = lastKeys[c]

====
